---- MODULE Spec2Model ----
(***************************************************************************)
(* Model of digispark-ir-keyboard.ino: the falling-edge interrupt handler  *)
(* readIR (the pulse decoder), reset, and the main loop with its command    *)
(* dispatcher DEFAULT_handleReceivedData.                                   *)
(*                                                                         *)
(* Timestamps (TS, unsigned long) are 32 bits wide.  They are kept as a     *)
(* pair <<hi, lo>> of 16-bit halves, so that every sum, difference and      *)
(* comparison is the 32-bit one and "uint16 delta" is the low half of the   *)
(* difference.                                                              *)
(*                                                                         *)
(* Granularity: a C statement is one step.  The handler runs with the       *)
(* global interrupt flag cleared from its entry until the interrupts()      *)
(* call of a reset() it makes; from there on its statements interleave      *)
(* with nested handler invocations.  The main loop runs only while no       *)
(* handler is active and can be preempted between any two statements;       *)
(* the noInterrupts()..interrupts() section of reset() is one step.         *)
(***************************************************************************)
EXTENDS Integers, Sequences, FiniteSets, TLC

\* ---------------------------------------------------------------- constants
MS == 1000
US == 1
TOLERANCE == 20
PRESS_DELAY == 200
VOL_UP == 224
VOL_DOWN == 208
MUTE == 240
STATE_NEED_START == 0
STATE_NEED_START2 == 1
STATE_DATA == 2
STATE_DATA_READY == 3

\* 2^16 and 2^8: uint16 and uint8 arithmetic
W16 == 65536
W8 == 256

\* ------------------------------------------------------------ 32-bit time
TSZero == <<0, 0>>

\* the TS holding n, 0 <= n < 2^31
TSOf(n) == <<n \div W16, n % W16>>

\* a + b and a - b modulo 2^32
TSAdd(a, b) ==
    LET lo == a[2] + b[2]
    IN  <<(a[1] + b[1] + (lo \div W16)) % W16, lo % W16>>

TSSub(a, b) ==
    LET lo == a[2] - b[2]
        borrow == IF lo < 0 THEN 1 ELSE 0
    IN  <<(a[1] - b[1] - borrow) % W16, lo % W16>>

TSGt(a, b) == a[1] > b[1] \/ (a[1] = b[1] /\ a[2] > b[2])

\* a < n for a small non-negative number n (the int is converted to TS)
TSLtNum(a, n) == a[1] = 0 /\ a[2] < n

\* uint16 delta = now - lastRead: the difference truncated to 16 bits
Delta16(now, last) == TSSub(now, last)[2]

\* ------------------------------------------------------- readIR's tests
\* lastRead != 0 && lastRead > now
Overflowed(now, last) == last # TSZero /\ TSGt(last, now)

\* 40*MS is an int computed in 16 bits on the ATtiny85 (40000 wraps to
\* -25536) and converted back to unsigned for the comparison with the
\* uint16 delta: the threshold compared against is 40000.
TimeoutLimit == (40 * MS) % W16

\* lastRead != 0 && delta > 40*MS
TimedOut(delta, last) == last # TSZero /\ delta > TimeoutLimit

\* delta > 7*MS && delta < 11*MS
StartWindow(delta) == delta > 7 * MS /\ delta < 11 * MS

\* delta > 1*MS + 500*US - TOLERANCE && delta < 2*MS + 500*US + TOLERANCE
BitOne(delta) ==
    delta > 1 * MS + 500 * US - TOLERANCE /\ delta < 2 * MS + 500 * US + TOLERANCE

\* delta > 1*MS - TOLERANCE && delta < 1*MS + 500*US + TOLERANCE
BitZero(delta) ==
    delta > 1 * MS - TOLERANCE /\ delta < 1 * MS + 500 * US + TOLERANCE

\* the bit, were the bit-zero window of line 210 tested first
ZeroFirst(delta) == IF BitZero(delta) THEN 0 ELSE 1

\* dataBit of a delta that one of the two windows accepts
DataBit(delta) == IF BitOne(delta) THEN 1 ELSE 0

\* data |= dataBit, for dataBit in {0, 1}
OrBit(d, bit) == IF bit = 1 /\ d % 2 = 0 THEN d + 1 ELSE d

\* data <<= 1 on a uint8
Shl1(d) == (2 * d) % W8

\* pulseNum >= 16 && pulseNum < 24
InCode(p) == p >= 16 /\ p < 24

\* the code byte, were it shifted without taking the bit in
ShlOnly(d, p, bit) == IF InCode(p) /\ p < 23 THEN Shl1(d) ELSE d

\* the code byte after the data bit at pulse p is taken in
Accumulate(d, p, bit) ==
    IF InCode(p)
    THEN IF p < 23 THEN Shl1(OrBit(d, bit)) ELSE OrBit(d, bit)
    ELSE d

\* pulseNum >= 32
FrameComplete(p) == p >= 32

\* ------------------------------------------------------------------ state
VARIABLES
    lastRead,   \* volatile TS lastRead
    pulseNum,   \* volatile uint8 pulseNum
    data,       \* volatile uint8 data
    state,      \* volatile uint8 state
    lastPress,  \* TS lastPress
    pc,         \* the main loop's position
    hNow,       \* handleReceivedData's local now
    isr,        \* the active readIR invocations, innermost first
    msNow,      \* what millis() returns
    tx,         \* the remote: how far it is in the frame it sends
    noise,      \* edges that came from no frame, so far
    inner,      \* edges that arrived since the main loop left a call-free point
    run,        \* history: length of the clean edge sequence received so far
    expect,     \* history: the code byte that sequence spells
    sinceFwd,   \* history: ms since the last command was forwarded (-1: none)
    lastGap,    \* history: ms between the last two forwarded commands (-1: none)
    polled,     \* history: what the loop saw when it found a frame
    sent,       \* history: the command this loop iteration forwarded
    frameFwd,   \* history: commands forwarded since a frame last completed
    order,      \* history: sink call and reset of this loop iteration, in order
    probe       \* history: the interval of the last off-time edge (-1: none)

prog == <<lastRead, pulseNum, data, state>>
hist == <<run, expect, sinceFwd, lastGap, polled, sent, frameFwd, order, probe>>
vars == <<lastRead, pulseNum, data, state, lastPress, pc, hNow, isr, msNow, tx,
          noise, inner, run, expect, sinceFwd, lastGap, polled, sent, frameFwd, order,
          probe>>

\* ----------------------------------------------------------------- bounds
\* handler invocations that may be active at once
MaxNest == 2
\* edges that may arrive within one run of adjacent statements: a handler
\* past interrupts(), the main loop from its test to the key press, reset()
MaxInner == 1
\* edges that belong to no frame, per behaviour
MaxNoise == 1
\* points of the millisecond clock on each side of its wraparound
MsSpan == 1

\* ------------------------------------------------------------ environment
\* milliseconds a frame takes on the air, and the clock's grain
FrameMs == PRESS_DELAY \div 4

MsPoints ==
    {TSOf(k * FrameMs) : k \in 0..MsSpan}
        \cup {TSSub(TSZero, TSOf(k * FrameMs)) : k \in 1..MsSpan}

\* intervals of a transmitted frame, in microseconds
StartGap == 9 * MS
ZeroGap == MS + 200 * US
OneGap == 2 * MS

BitGap(b) == IF b = 1 THEN OneGap ELSE ZeroGap

\* the code bytes the remote sends while the main loop runs
Codes == {VOL_UP, VOL_UP + 1}

\* every code byte
AllCodes == 0..(W8 - 1)

\* The remote sends a frame edge by edge: a first edge after a long idle
\* time, the start edge, then sixteen equal address bits a, the eight bits
\* of a code byte (most significant first) and eight equal check bits k.
\* tx holds the edges sent so far (pos), a, k, and the code bits sent (pre)
\* when only some code bytes are sent.
Idle == [pos |-> -1, a |-> 0, pre |-> 0, k |-> 0]

\* the bits the remote may send next, the code byte being one of codes and
\* the address and check bits among fill
NextBits(codes, fill) ==
    LET i == tx.pos - 2
    IN  IF i = 0 \/ i = 24 THEN fill
        ELSE IF i < 16 THEN {tx.a}
        ELSE IF i > 24 THEN {tx.k}
        ELSE IF codes = AllCodes THEN {0, 1}
        ELSE {b \in 0..1 : \E c \in codes : c \div (2 ^ (23 - i)) = 2 * tx.pre + b}

\* tx after bit b is sent
Sent(b, codes) ==
    LET i == tx.pos - 2
    IN  IF tx.pos = 33 THEN Idle
        ELSE [pos |-> tx.pos + 1,
              a |-> IF i = 0 THEN b ELSE tx.a,
              pre |-> IF i >= 16 /\ i < 24 /\ codes # AllCodes THEN 2 * tx.pre + b
                      ELSE tx.pre,
              k |-> IF i = 24 THEN b ELSE tx.k]

\* the next edges the remote may send: the interval since its last edge
\* (zero: a long idle time) and tx afterwards
NextTx(codes, fill) ==
    IF tx.pos = 0 THEN {[gap |-> TSZero, t |-> [tx EXCEPT !.pos = 1]]}
    ELSE IF tx.pos = 1 THEN {[gap |-> TSOf(StartGap), t |-> [tx EXCEPT !.pos = 2]]}
    ELSE {[gap |-> TSOf(BitGap(b)), t |-> Sent(b, codes)] : b \in NextBits(codes, fill)}

\* micros() at an edge that follows a long idle time: samples of the clock,
\* among them zero, a time 9 ms (mod 2^16) after the second, and a time
\* 30 ms before the clock wraps
FreshNow == {TSZero, TSOf(ZeroGap), TSOf(W16 + ZeroGap + StartGap),
             TSSub(TSZero, TSOf(30 * MS))}

\* the samples after the clock's start
LateNow == FreshNow \ {TSZero}

\* intervals of edges that belong to no frame: too short for a bit, and a
\* bit's interval 2^16 microseconds late
NoiseGaps == {TSOf(ZeroGap \div 2), TSOf(W16 + ZeroGap)}

\* ------------------------------------------------------------------- reset
\* the decoder's variables
Dec == [lr |-> lastRead, pn |-> pulseNum, d |-> data, st |-> state]

\* the decoder, were data left as it is
KeepData(s) == s

\* noInterrupts(); lastRead = 0; interrupts() (lines 247-249)
ResetTs(s) == [s EXCEPT !.lr = TSZero]

\* data = pulseNum = 0 (line 251): pulseNum = 0, then data = that value
ResetPulse(s) == [s EXCEPT !.pn = 0]

ResetData(s) == [s EXCEPT !.d = 0]

\* state = STATE_NEED_START (line 252)
ResetState(s) == [s EXCEPT !.st = STATE_NEED_START]

\* reset() run from its entry to its return (lines 246-253)
Reset(s) == ResetState(ResetData(ResetPulse(ResetTs(s))))

\* ------------------------------------------------------------------ readIR
\* the handler's switch (lines 165-243), run from its entry to its return or
\* to the interrupts() of the reset() it calls
Switch(now, delta) ==
    LET keep == [lr |-> now, pn |-> pulseNum, d |-> data, st |-> state, out |-> "done"]
        rst == [lr |-> TSZero, pn |-> pulseNum, d |-> data, st |-> state, out |-> "reset"]
    IN  CASE state = STATE_NEED_START ->
               IF lastRead = TSZero
               THEN [keep EXCEPT !.st = STATE_NEED_START2]
               ELSE keep
          [] state = STATE_NEED_START2 ->
               IF StartWindow(delta)
               THEN [keep EXCEPT !.pn = 0, !.st = STATE_DATA]
               ELSE rst
          [] state = STATE_DATA ->
               IF BitOne(delta) \/ BitZero(delta)
               THEN LET p2 == (pulseNum + 1) % W8
                    IN  [keep EXCEPT !.pn = p2,
                                     !.d = Accumulate(data, pulseNum, DataBit(delta)),
                                     !.st = IF FrameComplete(p2)
                                            THEN STATE_DATA_READY ELSE STATE_DATA]
               ELSE rst
          [] OTHER -> keep

\* an invocation: where it is, its locals now and delta (kept while they are
\* still read), where reset() returns to ("wrap": the return of line 156;
\* "ret": the other returns; "sw": the switch follows), whether no other
\* edge arrived since this one, and how many did
Frame(p, now, delta, cont) ==
    [pc |-> p,
     now |-> IF cont = "sw" THEN now ELSE TSZero,
     delta |-> IF cont = "sw" THEN delta ELSE 0,
     cont |-> cont, clean |-> TRUE, inner |-> 0]

Top == Head(isr)

\* --------------------------------------------- history of the edge sequence
\* the 32-bit interval iv is below 2^16 and in the start window, or is a
\* bit one, or a bit zero
SpecStart(iv) == iv[1] = 0 /\ StartWindow(iv[2])
SpecOne(iv) == iv[1] = 0 /\ BitOne(iv[2])
SpecZero(iv) == iv[1] = 0 /\ ~BitOne(iv[2]) /\ BitZero(iv[2])

\* the length of the clean sequence once the edge at now is handled
RunAfter(now) ==
    LET iv == TSSub(now, lastRead)
        wrap == TSGt(lastRead, now)
    IN  IF run = 1 /\ ~wrap /\ SpecStart(iv) THEN 2
        ELSE IF run >= 2 /\ run < 34 /\ ~wrap /\ (SpecOne(iv) \/ SpecZero(iv))
             THEN run + 1
        ELSE 0

\* the code byte the clean sequence spells once the edge at now is handled:
\* the bit at position p of 16..23 weighs 2^(23-p)
ExpectAfter(now) ==
    LET iv == TSSub(now, lastRead)
        p == run - 2
    IN  IF RunAfter(now) < 3 THEN 0
        ELSE IF p >= 16 /\ p <= 23 /\ SpecOne(iv) THEN expect + 2 ^ (23 - p)
        ELSE expect

\* the outer invocations, once another edge has arrived
Nested ==
    [i \in 1..Len(isr) |->
        [isr[i] EXCEPT !.clean = FALSE, !.inner = IF i = 1 THEN @ + 1 ELSE @]]

\* the edge interrupt fires and readIR runs with micros() = now, from its
\* entry (line 150) to its return or to the interrupts() of the reset() it
\* calls: the interrupt flag is cleared for that long.  It fires in the main
\* loop, or in a handler that has passed interrupts().
Interrupt(now) ==
    /\ Len(isr) < MaxNest
    /\ isr # <<>> => Top.inner < MaxInner
    /\ LET delta == Delta16(now, lastRead)
           outer == isr = <<>>
       IN  IF Overflowed(now, lastRead)
           THEN /\ lastRead' = ResetTs(Dec).lr
                /\ isr' = <<Frame("r_pulse", now, delta, "wrap")>> \o Nested
                /\ run' = 0 /\ expect' = 0
                /\ UNCHANGED <<pulseNum, data, state, frameFwd>>
           ELSE IF TimedOut(delta, lastRead)
           THEN /\ lastRead' = ResetTs(Dec).lr
                /\ isr' = <<Frame("r_pulse", now, delta, "sw")>> \o Nested
                /\ run' = 0 /\ expect' = 0
                /\ UNCHANGED <<pulseNum, data, state, frameFwd>>
           ELSE LET r == Switch(now, delta)
                    first == state = STATE_NEED_START /\ lastRead = TSZero
                IN  /\ lastRead' = r.lr /\ pulseNum' = r.pn /\ data' = r.d
                    /\ state' = r.st
                    /\ isr' = IF r.out = "reset"
                              THEN <<Frame("r_pulse", now, delta, "ret")>> \o Nested
                              ELSE Nested
                    /\ run' = IF ~outer THEN 0
                              ELSE IF first THEN 1 ELSE RunAfter(now)
                    /\ expect' = IF outer /\ ~first THEN ExpectAfter(now) ELSE 0
                    /\ frameFwd' = IF r.st = STATE_DATA_READY /\ state # STATE_DATA_READY
                                   THEN 0 ELSE frameFwd
    /\ UNCHANGED <<lastPress, pc, hNow, msNow, sinceFwd, lastGap, polled, sent, order>>

\* the handler's statements after interrupts(): another edge may nest here
IsrRest == <<lastPress, pc, hNow, msNow, tx, noise, inner, sinceFwd, lastGap, polled,
             sent, frameFwd, order, probe>>

SetTop(p) == <<[Top EXCEPT !.pc = p]>> \o Tail(isr)

\* reset(): pulseNum = 0
IsrResetPulse ==
    /\ isr # <<>> /\ Top.pc = "r_pulse"
    /\ pulseNum' = ResetPulse(Dec).pn
    /\ isr' = SetTop("r_data")
    /\ run' = 0 /\ expect' = 0
    /\ UNCHANGED <<lastRead, data, state>> /\ UNCHANGED IsrRest

\* reset(): data = 0
IsrResetData ==
    /\ isr # <<>> /\ Top.pc = "r_data"
    /\ data' = ResetData(Dec).d
    /\ isr' = SetTop("r_state")
    /\ run' = 0 /\ expect' = 0
    /\ UNCHANGED <<lastRead, pulseNum, state>> /\ UNCHANGED IsrRest

\* reset(): state = STATE_NEED_START, then return (lines 156, 188, 215) or
\* go on to the switch (line 163)
IsrResetState ==
    /\ isr # <<>> /\ Top.pc = "r_state"
    /\ state' = ResetState(Dec).st
    /\ isr' = IF Top.cont = "sw" THEN SetTop("sw") ELSE Tail(isr)
    /\ run' = 0 /\ expect' = 0
    /\ UNCHANGED <<lastRead, pulseNum, data>> /\ UNCHANGED IsrRest

\* switch(state) after the timeout's reset(): case STATE_NEED_START tests
\* lastRead == 0 (line 169); the other cases run as in Switch
IsrSwitch ==
    /\ isr # <<>> /\ Top.pc = "sw"
    /\ IF state = STATE_NEED_START
       THEN /\ isr' = SetTop(IF lastRead = TSZero THEN "ns_ts" ELSE "last")
            /\ UNCHANGED prog
       ELSE LET r == Switch(Top.now, Top.delta)
            IN  /\ lastRead' = r.lr /\ pulseNum' = r.pn /\ data' = r.d /\ state' = r.st
                /\ isr' = IF r.out = "reset"
                          THEN <<Frame("r_pulse", Top.now, Top.delta, "ret")>>
                                   \o Tail(isr)
                          ELSE Tail(isr)
    /\ run' = 0 /\ expect' = 0
    /\ UNCHANGED IsrRest

\* lastRead = now (line 170)
IsrFirstTs ==
    /\ isr # <<>> /\ Top.pc = "ns_ts"
    /\ lastRead' = Top.now
    /\ isr' = SetTop("ns_st")
    /\ run' = 0 /\ expect' = 0
    /\ UNCHANGED <<pulseNum, data, state>> /\ UNCHANGED IsrRest

\* state = STATE_NEED_START2; return (lines 171-172)
IsrFirstState ==
    /\ isr # <<>> /\ Top.pc = "ns_st"
    /\ state' = STATE_NEED_START2
    /\ isr' = Tail(isr)
    /\ run' = IF Top.clean /\ Len(isr) = 1 THEN 1 ELSE 0
    /\ expect' = 0
    /\ UNCHANGED <<lastRead, pulseNum, data>> /\ UNCHANGED IsrRest

\* break; lastRead = now (line 243)
IsrLast ==
    /\ isr # <<>> /\ Top.pc = "last"
    /\ lastRead' = Top.now
    /\ isr' = Tail(isr)
    /\ run' = 0 /\ expect' = 0
    /\ UNCHANGED <<pulseNum, data, state>> /\ UNCHANGED IsrRest

\* ------------------------------------------------------------ the edge source
\* an edge was recorded: lastRead holds its time
Recorded == lastRead # TSZero \/ run > 0

\* micros() at an edge after a long idle time, among the samples
Fresh(samples) == {t \in samples : t # lastRead \/ ~Recorded}

\* micros() at an edge that comes gap after the recorded one
After(gap, samples) ==
    IF Recorded /\ gap # TSZero THEN {TSAdd(lastRead, gap)} ELSE Fresh(samples)

\* the main loop is between adjacent statements: from its test of state to
\* the key press, or inside reset()
InWindow == pc \notin {"check", "reset_ts"}

\* an edge arrives, at most MaxInner of them within one run of statements
Edge(now) ==
    /\ InWindow => inner < MaxInner
    /\ inner' = IF InWindow THEN inner + 1 ELSE 0
    /\ Interrupt(now)

\* the next edge of the frame being sent
EdgeOf(codes, fill, samples) ==
    /\ tx.pos >= 0
    /\ \E e \in NextTx(codes, fill) :
          /\ \E now \in After(e.gap, samples) : Edge(now)
          /\ tx' = e.t
    /\ UNCHANGED <<noise, probe>>

\* the remote starts sending a frame
Press ==
    /\ tx = Idle
    /\ tx' = [Idle EXCEPT !.pos = 0]
    /\ UNCHANGED <<prog, lastPress, pc, hNow, isr, msNow, noise, inner>>
    /\ UNCHANGED hist

\* the next edge of the frame: one of Codes
EdgeTx == EdgeOf(Codes, {0}, LateNow)

\* the next edge of the frame: any code byte
EdgeAny == EdgeOf(AllCodes, {0, 1}, FreshNow)

\* the next edge of the frame: volume up
EdgeOne == EdgeOf({VOL_UP}, {0}, {TSOf(ZeroGap), TSOf(100 * MS)})

\* the next edge of the frame: volume up or eight one bits, address and
\* check bits zero, the first edge at micros() = 0 or 100 ms
EdgeZero == EdgeOf({VOL_UP, W8 - 1}, {0}, {TSZero, TSOf(100 * MS)})

\* the next edge of the frame: one of Codes, the first edge at 1.2 or 100 ms
EdgeTwo == EdgeOf(Codes, {0}, {TSOf(ZeroGap), TSOf(100 * MS)})

\* an edge that belongs to no frame
EdgeNoise ==
    /\ noise < MaxNoise
    /\ \E now \in Fresh(LateNow) \cup UNION {After(gap, LateNow) : gap \in NoiseGaps} :
          Edge(now)
    /\ noise' = noise + 1
    /\ UNCHANGED <<tx, probe>>

\* intervals at and next to the ends of the two bit windows of lines 208
\* and 210, in microseconds
ProbeGaps ==
    LET lo0 == 1 * MS - TOLERANCE
        lo1 == 1 * MS + 500 * US - TOLERANCE
        hi0 == 1 * MS + 500 * US + TOLERANCE
        hi1 == 2 * MS + 500 * US + TOLERANCE
    IN  {lo0, lo0 + 1, lo1, lo1 + 1, hi0 - 1, hi0, hi0 + 1, hi1 - 1, hi1}

\* while the remote sends the bits of a frame, an edge arrives one of these
\* intervals after the recorded one
EdgeProbe ==
    /\ noise < MaxNoise
    /\ tx.pos >= 2
    /\ \E g \in ProbeGaps :
          /\ Edge(TSAdd(lastRead, TSOf(g)))
          /\ probe' = g
    /\ noise' = noise + 1
    /\ UNCHANGED tx

\* ------------------------------------------------------------------- time
\* ms since the last forwarded command, d ms later (kept up to PRESS_DELAY)
Later(d) ==
    IF sinceFwd < 0 THEN sinceFwd
    ELSE IF sinceFwd + d > PRESS_DELAY THEN PRESS_DELAY
    ELSE sinceFwd + d

\* the remote starts sending a frame, which takes FrameMs on the air; no
\* such time passes between handleReceivedData's millis() and its key press
PressTimed ==
    /\ tx = Idle
    /\ pc # "switch"
    /\ TSAdd(msNow, TSOf(FrameMs)) \in MsPoints
    /\ tx' = [Idle EXCEPT !.pos = 0]
    /\ msNow' = TSAdd(msNow, TSOf(FrameMs))
    /\ sinceFwd' = Later(FrameMs)
    /\ UNCHANGED <<prog, lastPress, pc, hNow, isr, noise, inner, run, expect,
                   lastGap, polled, sent, frameFwd, order, probe>>

\* time passes: millis() moves on to another point of the clock.  Only
\* handleReceivedData reads it (line 68), so time is let pass just before
Elapse(points) ==
    /\ pc = "debounce" /\ isr = <<>>
    /\ \E t \in points \ {msNow} :
          LET el == TSSub(t, msNow)
          IN  /\ msNow' = t
              /\ sinceFwd' = Later(IF el[1] > 0 \/ el[2] > PRESS_DELAY
                                   THEN PRESS_DELAY ELSE el[2])
    /\ UNCHANGED <<prog, lastPress, pc, hNow, isr, tx, noise, inner, run,
                   expect, lastGap, polled, sent, frameFwd, order, probe>>

\* millis() moves among the points 50 ms apart
Tick == Elapse(MsPoints)

\* millis() at the ends of the repeat interval: 0, 50, then 199 and 200 ms
\* after 50, and 50 ms before the clock wraps
KeyPoints ==
    {TSZero, TSOf(FrameMs), TSOf(FrameMs + PRESS_DELAY - 1),
     TSOf(FrameMs + PRESS_DELAY), TSSub(TSZero, TSOf(FrameMs))}

\* millis() moves among them
TickKeys == Elapse(KeyPoints)

\* ---------------------------------------------------------------- main loop
\* the two calls, were reset() the first
ResetFirst == <<"reset", "handle">>

\* loop() calls handleReceivedData(), then reset() (lines 143-144)
LoopOrder == <<"handle", "reset">>

PcOf(call) == IF call = "handle" THEN "debounce" ELSE "reset_ts"

\* where the loop would go, were handleReceivedData the only call
HandleOnly(done) == "check"

\* where the loop goes when the call named done returns
AfterCall(done) == IF LoopOrder[1] = done THEN PcOf(LoopOrder[2]) ELSE "check"

\* the repeat check, were the test of line 78 left out
NoRepeatCheck(now, lp) ==
    IF lp # TSZero /\ TSGt(lp, now) THEN "overflow" ELSE "pass"

\* the repeat check, were the test of line 72 left out
NoWrapCheck(now, lp) ==
    IF lp # TSZero /\ TSLtNum(TSSub(now, lp), PRESS_DELAY) THEN "drop" ELSE "pass"

\* lines 69-80: "overflow" clears lastPress and returns, "drop" returns,
\* "pass" goes on to the switch
Debounce(now, lp) ==
    IF lp # TSZero
    THEN IF TSGt(lp, now) THEN "overflow"
         ELSE IF TSLtNum(TSSub(now, lp), PRESS_DELAY) THEN "drop"
         ELSE "pass"
    ELSE "pass"

\* the keys, were volume up and volume down exchanged
SwapKeys(code) ==
    CASE code = VOL_UP -> "MMKEY_VOL_DOWN"
      [] code = VOL_DOWN -> "MMKEY_VOL_UP"
      [] code = MUTE -> "MMKEY_MUTE"
      [] OTHER -> "none"

\* the key switch(data) presses (lines 82-94)
Command(code) ==
    CASE code = VOL_UP -> "MMKEY_VOL_UP"
      [] code = VOL_DOWN -> "MMKEY_VOL_DOWN"
      [] code = MUTE -> "MMKEY_MUTE"
      [] OTHER -> "none"

\* history: the loop found no frame
NoPoll == [code |-> -1, fresh |-> FALSE]

\* if (state == STATE_DATA_READY) (line 142); loopMisc() changes nothing here
MainCheck ==
    /\ isr = <<>> /\ pc = "check"
    /\ IF state = STATE_DATA_READY
       THEN /\ pc' = PcOf(LoopOrder[1])
            /\ polled' = [code |-> data, fresh |-> lastPress = TSZero]
       ELSE /\ pc' = "check"
            /\ polled' = NoPoll
    /\ sent' = "none"
    /\ order' = <<>>
    /\ inner' = 0
    /\ UNCHANGED <<prog, lastPress, hNow, isr, msNow, tx, noise, run, expect,
                   sinceFwd, lastGap, frameFwd, probe>>

\* handleReceivedData: now = millis() and the repeat check (lines 68-80)
MainDebounce ==
    /\ isr = <<>> /\ pc = "debounce"
    /\ LET r == Debounce(msNow, lastPress)
       IN  /\ lastPress' = IF r = "overflow" THEN TSZero ELSE lastPress
           /\ pc' = IF r = "pass" THEN "switch" ELSE AfterCall("handle")
           /\ hNow' = IF r = "pass" THEN msNow ELSE TSZero
           /\ inner' = IF r = "pass" THEN inner ELSE 0
    /\ UNCHANGED <<prog, isr, msNow, tx, noise>> /\ UNCHANGED hist

\* handleReceivedData: switch(data), the key press, lastPress = now (82-96)
MainSwitch ==
    /\ isr = <<>> /\ pc = "switch"
    /\ LET key == Command(data)
       IN  IF key # "none"
           THEN /\ lastPress' = hNow
                /\ sent' = key
                /\ frameFwd' = frameFwd + 1
                /\ order' = Append(order, "sink")
                /\ lastGap' = sinceFwd
                /\ sinceFwd' = 0
           ELSE UNCHANGED <<lastPress, sent, frameFwd, order, lastGap, sinceFwd>>
    /\ pc' = AfterCall("handle")
    /\ hNow' = TSZero
    /\ inner' = 0
    /\ UNCHANGED <<prog, isr, msNow, tx, noise, run, expect, polled, probe>>

\* reset(): noInterrupts(); lastRead = 0; interrupts() (lines 247-249)
MainResetTs ==
    /\ isr = <<>> /\ pc = "reset_ts"
    /\ lastRead' = ResetTs(Dec).lr
    /\ pc' = "reset_pulse"
    /\ run' = 0 /\ expect' = 0
    /\ UNCHANGED <<pulseNum, data, state, lastPress, hNow, isr, msNow, tx, noise,
                   inner, sinceFwd, lastGap, polled, sent, frameFwd, order, probe>>

\* reset(): pulseNum = 0 (line 251)
MainResetPulse ==
    /\ isr = <<>> /\ pc = "reset_pulse"
    /\ pulseNum' = ResetPulse(Dec).pn
    /\ pc' = "reset_data"
    /\ run' = 0 /\ expect' = 0
    /\ UNCHANGED <<lastRead, data, state, lastPress, hNow, isr, msNow, tx, noise,
                   inner, sinceFwd, lastGap, polled, sent, frameFwd, order, probe>>

\* reset(): data = 0 (line 251)
MainResetData ==
    /\ isr = <<>> /\ pc = "reset_data"
    /\ data' = ResetData(Dec).d
    /\ pc' = "reset_state"
    /\ run' = 0 /\ expect' = 0
    /\ UNCHANGED <<lastRead, pulseNum, state, lastPress, hNow, isr, msNow, tx, noise,
                   inner, sinceFwd, lastGap, polled, sent, frameFwd, order, probe>>

\* reset(): state = STATE_NEED_START (line 252), and the call returns
MainResetState ==
    /\ isr = <<>> /\ pc = "reset_state"
    /\ state' = ResetState(Dec).st
    /\ pc' = AfterCall("reset")
    /\ order' = Append(order, "reset")
    /\ run' = 0 /\ expect' = 0
    /\ inner' = 0
    /\ UNCHANGED <<lastRead, pulseNum, data, lastPress, hNow, isr, msNow, tx, noise,
                   sinceFwd, lastGap, polled, sent, frameFwd, probe>>

\* ------------------------------------------------------------ specifications
\* lines 41-45, and the loop about to run
Init ==
    /\ lastRead = TSZero /\ pulseNum = 0 /\ data = 0 /\ state = STATE_NEED_START
    /\ lastPress = TSZero
    /\ pc = "check" /\ hNow = TSZero /\ isr = <<>>
    /\ msNow = TSZero /\ tx = Idle /\ noise = 0 /\ inner = 0
    /\ run = 0 /\ expect = 0 /\ sinceFwd = -1 /\ lastGap = -1
    /\ polled = NoPoll /\ sent = "none" /\ frameFwd = 0 /\ order = <<>>
    /\ probe = -1

Handler ==
    \/ IsrResetPulse \/ IsrResetData \/ IsrResetState
    \/ IsrSwitch \/ IsrFirstTs \/ IsrFirstState \/ IsrLast

Loop ==
    \/ MainCheck \/ MainDebounce \/ MainSwitch
    \/ MainResetTs \/ MainResetPulse \/ MainResetData \/ MainResetState

\* the remote, noise, the handler and the main loop, millis() standing still
Next == Press \/ EdgeTx \/ EdgeNoise \/ Handler \/ Loop

Spec == Init /\ [][Next]_vars

\* the handler alone: every code byte, no noise, no main loop
NextDecoder == Press \/ EdgeAny \/ Handler

SpecDecoder == Init /\ [][NextDecoder]_vars

\* the remote, the handler, the main loop and the millisecond clock
NextClock == PressTimed \/ EdgeOne \/ Tick \/ Handler \/ Loop

SpecClock == Init /\ [][NextClock]_vars

\* the remote sending volume up from micros() = 0, the handler and the loop
NextScenario == Press \/ EdgeZero \/ Handler \/ Loop

SpecScenario == Init /\ [][NextScenario]_vars

\* the remote sending volume up or an unrecognized code, the handler, the
\* main loop, and millis() at the ends of the repeat interval
NextKeys == Press \/ EdgeTwo \/ TickKeys \/ Handler \/ Loop

SpecKeys == Init /\ [][NextKeys]_vars

\* the handler alone, the remote sending volume up, and an edge off the
\* frame's timing
NextBitTiming == Press \/ EdgeOne \/ EdgeProbe \/ Handler

SpecBitTiming == Init /\ [][NextBitTiming]_vars

\* the same, where a handler that was entered runs on, and the main loop
\* runs again and again while no handler is active
FairSpec == Init /\ [][NextClock]_vars /\ WF_vars(Handler) /\ SF_vars(Loop)

\* --------------------------------------------------------------- properties
\* C1: once a first edge, a start edge 7 to 11 ms later and 32 edges at bit
\* intervals have been handled, with no wraparound and no reset in between,
\* the decoder is in STATE_DATA_READY with pulseNum = 32 and data is the
\* byte spelled, most significant bit first, by the bits at pulses 16..23
C1_FrameDecoded ==
    run = 34 /\ isr = <<>> =>
        state = STATE_DATA_READY /\ pulseNum = 32 /\ data = expect

\* a frame with code byte VOL_UP has been decoded
C1_Witness == run = 34 /\ data = VOL_UP /\ expect = VOL_UP

\* C2: when the loop finds STATE_DATA_READY with lastPress = 0, what
\* handleReceivedData forwards is the key of the code byte the loop found
\* (nothing for a byte other than VOL_UP, VOL_DOWN, MUTE), and a completed
\* frame is forwarded at most once
C2_OneCommandPerFrame ==
    /\ pc = AfterCall("handle") /\ polled.fresh => sent = Command(polled.code)
    /\ frameFwd <= 1

\* C3: two commands forwarded one after the other are at least PRESS_DELAY
\* milliseconds apart, whatever millis() was when they were accepted
C3_RepeatInterval == lastGap = -1 \/ lastGap >= PRESS_DELAY

\* C4: while the state is STATE_DATA_READY and the loop has not yet found the
\* frame, no step of the handler changes state, data or pulseNum (here: when
\* every edge so far came from a frame)
C4_FrameKept ==
    [][state = STATE_DATA_READY /\ pc = "check" /\ pc' = "check" /\ noise' = 0
          => state' = state /\ data' = data /\ pulseNum' = pulseNum]_vars

\* the time from a to b, on the 32-bit clock, is more than 40 ms
Over40ms(a, b) ==
    LET iv == TSSub(b, a) IN TSGt(b, a) /\ (iv[1] > 0 \/ iv[2] > 40 * MS)

\* C5: an edge that arrives more than 40 ms after the recorded edge is
\* never accepted as the start marker or as a data bit
C5_StaleEdgeRejected ==
    [][/\ lastRead # TSZero
       /\ \/ state = STATE_NEED_START2 /\ state' = STATE_DATA
          \/ state = STATE_DATA /\ pulseNum' = pulseNum + 1
       => ~Over40ms(lastRead, lastRead')]_vars

\* C6: in STATE_NEED_START2 only an edge whose interval since the first edge
\* is strictly inside (7 ms, 11 ms) moves the state to STATE_DATA
C6_StartWindowOnly ==
    [][state = STATE_NEED_START2 /\ lastRead # TSZero /\ state' = STATE_DATA
       => TSGt(lastRead', lastRead) /\ SpecStart(TSSub(lastRead', lastRead))]_vars

\* C7: in STATE_DATA only an edge whose interval is inside one of the two
\* bit windows is counted as a pulse; any other resets the decoder
C7_BadBitRejected ==
    [][state = STATE_DATA /\ lastRead # TSZero /\ pulseNum' = pulseNum + 1
       => /\ TSGt(lastRead', lastRead)
          /\ \/ SpecOne(TSSub(lastRead', lastRead))
             \/ SpecZero(TSSub(lastRead', lastRead))]_vars

\* C8 as stated: the loop's reset() of the decoder is complete before the key
\* press of the same iteration
C8_ResetBeforeSink ==
    \A i \in 1..Len(order) :
        order[i] = "sink" => \E j \in 1..(i - 1) : order[j] = "reset"

\* C8: the loop calls handleReceivedData() first and reset() after it: while
\* handleReceivedData runs the loop has not reset the decoder, and a key
\* press comes before the loop's reset() of the same iteration
C8_SinkBeforeReset ==
    /\ pc \in {"debounce", "switch"} => order = <<>>
    /\ order \in {<<>>, <<"sink">>, <<"reset">>, <<"sink", "reset">>}

\* a key was pressed and the loop's reset() then completed
C8_Witness == order = <<"sink", "reset">>

\* C9: once the state is STATE_DATA_READY, the decoder is eventually back in
\* STATE_NEED_START with data = 0 and pulseNum = 0
C9_ChannelFreed ==
    state = STATE_DATA_READY
        ~> (state = STATE_NEED_START /\ data = 0 /\ pulseNum = 0)

\* the loop found a frame, the repeat check dropped its command, and the
\* loop has reset the decoder
C9_Witness ==
    /\ polled.code = VOL_UP /\ ~polled.fresh /\ order = <<"reset">>
    /\ state = STATE_NEED_START /\ data = 0 /\ pulseNum = 0

\* C10: at most one invocation of readIR is active
C10_NoNesting == Len(isr) <= 1

\* C11: from every reachable state of the decoder, reset() run twice gives
\* what reset() run once gives: STATE_NEED_START, lastRead = 0, data = 0
\* and pulseNum = 0
C11_ResetIdempotent ==
    /\ Reset(Reset(Dec)) = Reset(Dec)
    /\ Reset(Dec) = [lr |-> TSZero, pn |-> 0, d |-> 0, st |-> STATE_NEED_START]

\* a decoder in the middle of a code byte, every variable of which reset()
\* changes
C11_Witness ==
    /\ state = STATE_DATA /\ lastRead # TSZero /\ data # 0 /\ pulseNum > 16
    /\ Reset(Dec) # Dec

\* micros() at the last edge of a volume-up frame whose first edge came at 0:
\* the start interval, 29 short intervals and 3 long ones
FrameEnd == TSOf(StartGap + 29 * ZeroGap + 3 * OneGap)

\* the same for a frame with eight long intervals at pulses 16..23
FrameEndLong == TSOf(StartGap + 24 * ZeroGap + 8 * OneGap)

\* C12 as the scenario is described: a first edge at micros() = 0, a start
\* edge 9 ms later and 32 data edges with eight long intervals at pulses
\* 16..23 and short ones elsewhere, then the loop's poll: the key pressed is
\* volume up
C12_EightLong ==
    [][/\ run = 34 /\ lastRead = FrameEndLong /\ expect = W8 - 1
       /\ polled.fresh /\ pc = "switch" /\ pc' = AfterCall("handle")
       => sent' = "MMKEY_VOL_UP"]_vars

\* C12: a first edge at micros() = 0, a start edge 9 ms later and 32 data
\* edges spelling 11100000 at pulses 16..23, then, with no command accepted
\* before and no further edge, the loop's poll: the key pressed is volume up
C12_EndToEnd ==
    [][/\ run = 34 /\ expect = VOL_UP /\ lastRead = FrameEnd
       /\ polled.fresh /\ pc = "switch" /\ pc' = AfterCall("handle")
       => sent' = "MMKEY_VOL_UP"]_vars

\* that frame was received and polled, and volume up was pressed
C12_Witness ==
    /\ run = 34 /\ expect = VOL_UP /\ lastRead = FrameEnd
    /\ polled.fresh /\ polled.code = VOL_UP /\ pc = AfterCall("handle")
    /\ sent = "MMKEY_VOL_UP"

\* C13: when the loop's reset() has returned, no handler is running and the
\* state is STATE_NEED_START, lastRead is 0, so that the next edge is taken
\* as the first edge of a frame
C13_EmptyWhenIdle ==
    /\ pc = "check" /\ order # <<>> /\ order[Len(order)] = "reset"
    /\ isr = <<>> /\ state = STATE_NEED_START
    => lastRead = TSZero

\* C14: when handleReceivedData reads data (line 82), the state is
\* STATE_DATA_READY, pulseNum is 32 and data is the byte the loop found
\* when it tested the state
C14_ReadsCompletedFrame ==
    pc = "switch" /\ isr = <<>> =>
        state = STATE_DATA_READY /\ pulseNum = 32 /\ data = polled.code

\* C15: an edge handled in STATE_DATA whose interval is strictly between
\* 1480 and 2520 us is taken as bit 1; otherwise one strictly between 980
\* and 1520 us is taken as bit 0; otherwise the handler calls reset().  So
\* 1481 and 1519 give bit 1, 980 and 2520 give a reset.
C15_BitClassified ==
    [][noise' = noise + 1 /\ isr = <<>> /\ state = STATE_DATA
       => LET g == probe'
              taken(b) ==
                  /\ isr' = <<>>
                  /\ pulseNum' = pulseNum + 1
                  /\ data' = Accumulate(data, pulseNum, b)
                  /\ lastRead' = TSAdd(lastRead, TSOf(g))
                  /\ state' \in {STATE_DATA, STATE_DATA_READY}
              aborted ==
                  /\ isr' # <<>> /\ Head(isr').pc = "r_pulse"
                  /\ lastRead' = TSZero
          IN  IF g > 1500 - 20 /\ g < 2500 + 20 THEN taken(1)
              ELSE IF g > 1000 - 20 /\ g < 1500 + 20 THEN taken(0)
              ELSE aborted]_vars

\* an interval of 1519 us, in both windows, was taken as bit 1 at pulse 19
C15_Witness ==
    /\ probe = 1519 /\ isr = <<>> /\ state = STATE_DATA
    /\ pulseNum = 20 /\ data = 30

\* C16: while handleReceivedData runs on a frame whose code byte is none of
\* VOL_UP, VOL_DOWN, MUTE, no key is pressed and lastPress does not change,
\* whatever lastPress and millis() are
C16_UnknownCodeNoEffect ==
    [][/\ pc \in {"debounce", "switch"}
       /\ Command(polled.code) = "none" /\ data = polled.code
       => lastPress' = lastPress /\ sent' = "none"]_vars

C18_WrapClears ==
    /\ [][/\ pc = "debounce" /\ pc' # "debounce"
          /\ lastPress # TSZero /\ TSGt(lastPress, msNow)
          => lastPress' = TSZero /\ sent' = "none" /\ pc' = AfterCall("handle")]_vars
    /\ [][lastPress = TSZero /\ lastPress' # TSZero
          => pc = "switch" /\ Command(data) # "none"]_vars
    /\ [][pc = "debounce" /\ pc' # "debounce" /\ lastPress = TSZero
          => pc' = "switch" /\ hNow' = msNow /\ lastPress' = TSZero]_vars
    /\ [][pc = "switch" /\ pc' # "switch" /\ lastPress = TSZero
          /\ Command(data) # "none"
          => sent' = Command(data) /\ lastPress' = hNow /\ hNow = msNow]_vars

\* a volume up was accepted 50 ms before millis() wrapped, lastPress was
\* cleared, and the next volume up was forwarded at 50 ms, 100 ms later
C18_Witness ==
    /\ pc = AfterCall("handle") /\ sent = "MMKEY_VOL_UP"
    /\ lastPress = TSOf(FrameMs) /\ msNow = TSOf(FrameMs) /\ lastGap = 2 * FrameMs

\* C19: when a handler that found lastRead non-zero and above micros()
\* returns (line 156), the state is STATE_NEED_START, lastRead is 0, data is
\* 0 and pulseNum is 0
C19_WrapResetsAll ==
    [][Len(isr) = 1 /\ Top.cont = "wrap" /\ isr' = <<>>
       => /\ state' = STATE_NEED_START /\ lastRead' = TSZero
          /\ data' = 0 /\ pulseNum' = 0]_vars
\* C20: whenever no handler is running, data is 0 in STATE_NEED_START, in
\* STATE_NEED_START2 and in STATE_DATA with pulseNum <= 16
C20_CodeByteZero ==
    /\ isr = <<>>
    /\ \/ state \in {STATE_NEED_START, STATE_NEED_START2}
       \/ state = STATE_DATA /\ pulseNum <= 16
    => data = 0
====
